---------------------------- MODULE Spec2Model ----------------------------
(***************************************************************************)
(* A model of store-easy's Store class (src/store.js): a typed key-value   *)
(* layer over localStorage / sessionStorage with per-key type tags, lazy   *)
(* expiration, namespacing by key prefix and batch writes.                 *)
(*                                                                         *)
(* Strings that the code takes apart (keys, prefixes, expires strings) are *)
(* sequences of one-character strings: "a:x" is <<"a", ":", "x">>.         *)
(* An optional value (undefined / null in the code) is a sequence of       *)
(* length 0 or 1: <<>> is undefined/null, <<v>> is v.                      *)
(***************************************************************************)
EXTENDS Integers, Sequences, FiniteSets, TLC

VARIABLES
    storage,   \* storage[kind]: the backend, a function full key -> raw text
    keys,      \* keys[s]: the #keys cache of every constructed Store s
    now,       \* Date.now()
    last       \* the call made by the last step, with what it returned

vars == <<storage, keys, now, last>>

----------------------------------------------------------------------------
(* Bounds of the model *)

MaxTime == 3
MaxBatch == 2

----------------------------------------------------------------------------
(* JavaScript values.  t is the class of the value, v its literal text.    *)

JSString(s) == [t |-> "string", v |-> s]
JSNumber(n) == [t |-> "number", v |-> n]
JSBoolean(b) == [t |-> "boolean", v |-> b]
JSObject == [t |-> "object", v |-> "{}"]
JSArray == [t |-> "array", v |-> "[]"]
JSDate == [t |-> "date", v |-> "1970-01-01T00:00:00.000Z"]
JSNull == [t |-> "null", v |-> "null"]
JSUndefined == [t |-> "undefined", v |-> "undefined"]

\* typeof value
TypeOf(value) ==
    IF value.t \in {"object", "array", "date", "null"} THEN "object" ELSE value.t

\* Number.isInteger(value), for the number literals of the model
IsInteger(value) ==
    value.t = "number" /\ value.v \in {"0", "1", "2", "5"}

\* The own properties of the isValid table of #typeCheck.
TypeTable ==
    {"string", "number", "int", "object", "array", "boolean", "date", "no-type"}

\* The table is an object literal, so table[type] also finds what the
\* literal inherits from Object.prototype.  Called without a receiver,
\* Object() returns a new object and Object.prototype.toString returns
\* "[object Undefined]": both are truthy.
InheritedCallable == {"constructor", "toString"}

IsValid(value, type) ==
    CASE type = "string" -> TypeOf(value) = "string"
      [] type = "number" -> TypeOf(value) = "number"
      [] type = "int" -> TypeOf(value) = "number" /\ IsInteger(value)
      [] type = "object" ->
            TypeOf(value) = "object" /\ value # JSNull /\ value.t # "array"
      [] type = "array" -> value.t = "array"
      [] type = "boolean" -> TypeOf(value) = "boolean"
      [] type = "date" -> value.t = "date"
      [] type = "no-type" -> TRUE
      [] type \in InheritedCallable -> TRUE
      [] OTHER -> FALSE

\* #typeCheck(value, type): "ok", or the error it throws.
TypeCheck(value, type) ==
    IF type \notin TypeTable \cup InheritedCallable THEN "unsupported"
    ELSE IF ~IsValid(value, type) THEN "mismatch"
    ELSE "ok"

----------------------------------------------------------------------------
(* JSON.  A raw text of the backend is a record: kind "garbage" is text    *)
(* JSON.parse rejects, "null" is the text null, "scalar" a JSON number or  *)
(* string, "envelope" a JSON object with the fields below.                 *)

\* What JSON.stringify writes for a value: a Date becomes its ISO string,
\* NaN becomes null; the other values of the model are JSON values.
ToJSON(value) ==
    IF value.t = "date" THEN JSString(value.v)
    ELSE IF value = JSNumber("NaN") THEN JSNull
    ELSE value

\* JSON.stringify(payload) of set / setMany
Stringify(payload) ==
    [kind |-> "envelope",
     value |-> ToJSON(payload.value),
     type |-> <<payload.type>>,
     strict |-> <<payload.strict>>,
     expiresAt |-> payload.expiresAt]

Garbage ==
    [kind |-> "garbage", value |-> JSUndefined, type |-> <<>>, strict |-> <<>>,
     expiresAt |-> <<>>]
NullText ==
    [kind |-> "null", value |-> JSUndefined, type |-> <<>>, strict |-> <<>>,
     expiresAt |-> <<>>]
ScalarText ==
    [kind |-> "scalar", value |-> JSUndefined, type |-> <<>>, strict |-> <<>>,
     expiresAt |-> <<>>]

\* JSON.parse(raw) does not throw
Parsable(raw) == raw.kind # "garbage"

\* const {value, type, strict, expiresAt} = JSON.parse(raw) does not throw:
\* destructuring null is a TypeError, destructuring a number gives undefined.
Destructurable(raw) == raw.kind \in {"scalar", "envelope"}

----------------------------------------------------------------------------
(* Strings *)

StartsWith(str, p) ==
    Len(str) >= Len(p) /\ SubSeq(str, 1, Len(p)) = p

Digits == {"0", "1", "2", "3", "4", "5", "6", "7", "8", "9"}

DigitValue(c) ==
    CASE c = "0" -> 0 [] c = "1" -> 1 [] c = "2" -> 2 [] c = "3" -> 3
      [] c = "4" -> 4 [] c = "5" -> 5 [] c = "6" -> 6 [] c = "7" -> 7
      [] c = "8" -> 8 [] c = "9" -> 9

\* parseInt(amount, 10) of a string of digits
RECURSIVE ParseInt(_)
ParseInt(ds) ==
    IF ds = <<>> THEN 0
    ELSE 10 * ParseInt(SubSeq(ds, 1, Len(ds) - 1)) + DigitValue(ds[Len(ds)])

ToLowerChar(c) ==
    CASE c = "S" -> "s" [] c = "E" -> "e" [] c = "C" -> "c" [] c = "M" -> "m"
      [] c = "I" -> "i" [] c = "N" -> "n" [] c = "H" -> "h" [] c = "D" -> "d"
      [] OTHER -> c

ToLowerCase(str) == [i \in 1..Len(str) |-> ToLowerChar(str[i])]

RECURSIVE TrimStart(_)
TrimStart(str) ==
    IF str # <<>> /\ str[1] = " " THEN TrimStart(Tail(str)) ELSE str

RECURSIVE TrimEnd(_)
TrimEnd(str) ==
    IF str # <<>> /\ str[Len(str)] = " "
    THEN TrimEnd(SubSeq(str, 1, Len(str) - 1)) ELSE str

\* Trim as it would be if it took no blank away
TrimNone(str) == str

Trim(str) == TrimEnd(TrimStart(str))

\* the length of the longest prefix of str made of digits
RECURSIVE DigitRun(_)
DigitRun(str) ==
    IF str # <<>> /\ str[1] \in Digits THEN 1 + DigitRun(Tail(str)) ELSE 0

UnitToMs(unit) ==
    CASE unit = <<"s">> -> 1000
      [] unit = <<"s", "e", "c">> -> 1000
      [] unit = <<"m">> -> 60 * 1000
      [] unit = <<"m", "i", "n">> -> 60 * 1000
      [] unit = <<"h">> -> 60 * 60 * 1000
      [] unit = <<"d">> -> 24 * 60 * 60 * 1000

Units ==
    {<<"s">>, <<"s", "e", "c">>, <<"m">>, <<"m", "i", "n">>, <<"h">>, <<"d">>}

(* The expires option: [t |-> "number", n |-> milliseconds, s |-> <<>>],   *)
(* [t |-> "string", n |-> 0, s |-> the string], or a value of another      *)
(* class (t "boolean" with n 1 for true and 0 for false, t "object").      *)
ExpiresNumber(n) == [t |-> "number", n |-> n, s |-> <<>>]
ExpiresString(s) == [t |-> "string", n |-> 0, s |-> s]
ExpiresBoolean(b) == [t |-> "boolean", n |-> IF b THEN 1 ELSE 0, s |-> <<>>]
ExpiresObject == [t |-> "object", n |-> 0, s |-> <<>>]

\* #parseExpires(expires): [ok |-> TRUE, ms |-> the duration], or ok FALSE
\* when it throws.  match = /^(\d+)\s*(s|sec|m|min|h|d)$/ on the trimmed,
\* lower-cased string.
ParseExpires(expires) ==
    IF expires.t = "number" THEN [ok |-> TRUE, ms |-> expires.n]
    ELSE IF expires.t = "string" THEN
        LET str == ToLowerCase(Trim(expires.s))
            n == DigitRun(str)
            amount == SubSeq(str, 1, n)
            unit == TrimStart(SubSeq(str, n + 1, Len(str)))
        IN  IF n >= 1 /\ unit \in Units
            THEN [ok |-> TRUE, ms |-> ParseInt(amount) * UnitToMs(unit)]
            ELSE [ok |-> FALSE, ms |-> 0]
    ELSE [ok |-> FALSE, ms |-> 0]

\* the truthiness of options.expires in "expires ? ... : null"
ExpiresTruthy(expires) ==
    CASE expires.t = "number" -> expires.n # 0
      [] expires.t = "string" -> expires.s # <<>>
      [] expires.t = "boolean" -> expires.n = 1
      [] OTHER -> TRUE

----------------------------------------------------------------------------
(* The Store class.  A Store is [storageType, prefix]; the backend it uses *)
(* is storage[storageType].                                                 *)

Store(storageType, prefix) == [storageType |-> storageType, prefix |-> prefix]

\* the store made by "new Store()"
Root == Store("localStorage", <<>>)

\* this.storage.setItem(fullKey, raw)
SetItem(st, fullKey, raw) ==
    [k \in DOMAIN st \cup {fullKey} |-> IF k = fullKey THEN raw ELSE st[k]]

\* RemoveItem as it would be if it left text that does not parse in place
RemoveItemParsed(st, fullKey) ==
    [k \in {j \in DOMAIN st : j # fullKey \/ ~Parsable(st[j])} |-> st[k]]

\* this.storage.removeItem(fullKey)
RemoveItem(st, fullKey) == [k \in DOMAIN st \ {fullKey} |-> st[k]]

\* #withPrefix(key)
WithPrefix(s, key) ==
    IF s.prefix # <<>> THEN s.prefix \o <<":">> \o key ELSE key

\* the value #updateKeys() gives #keys, as a set, over the backend st
UpdateKeys(s, st) ==
    {k \in DOMAIN st :
        IF s.prefix # <<>> THEN StartsWith(k, s.prefix \o <<":">>) ELSE TRUE}

\* GetMeta as it would be if an envelope with an expiration gave no defaults
GetMetaNoExpiring(st, fullKey) ==
    IF fullKey \notin DOMAIN st THEN <<>>
    ELSE IF ~Parsable(st[fullKey]) THEN <<>>
    ELSE IF st[fullKey].expiresAt # <<>> THEN <<>>
    ELSE <<[type |-> st[fullKey].type, strict |-> st[fullKey].strict]>>

\* #getMeta(fullKey): <<>> for null, else <<[type, strict]>> where a field
\* the parsed text does not have is undefined (<<>>)
GetMeta(st, fullKey) ==
    IF fullKey \notin DOMAIN st THEN <<>>
    ELSE IF ~Parsable(st[fullKey]) THEN <<>>
    ELSE <<[type |-> st[fullKey].type, strict |-> st[fullKey].strict]>>

\* the truthiness of a type tag: undefined and "" are falsy
TypeTruthy(type) == type # <<>> /\ type[1] # ""

\* ResolveType as it would be if the previous envelope's type were not
\* carried forward
ResolveTypeNoInherit(previous, options) == options.type

\* "type = previous?.type" of the destructuring of options: the type option
\* when given, else the previous envelope's type, else undefined
ResolveType(previous, options) ==
    IF options.type # <<>> THEN options.type
    ELSE IF previous # <<>> THEN previous[1].type ELSE <<>>

\* ResolveStrict as it would be if strict defaulted to false
ResolveStrictLax(previous, options) ==
    IF options.strict # <<>> THEN options.strict[1]
    ELSE IF previous # <<>> /\ previous[1].strict # <<>>
         THEN previous[1].strict[1] ELSE FALSE

\* ResolveStrict as it would be if the previous envelope's strict were not
\* carried forward
ResolveStrictNoInherit(previous, options) ==
    IF options.strict # <<>> THEN options.strict[1] ELSE TRUE

\* "strict = previous?.strict ?? true" of the destructuring of options
ResolveStrict(previous, options) ==
    IF options.strict # <<>> THEN options.strict[1]
    ELSE IF previous # <<>> /\ previous[1].strict # <<>>
         THEN previous[1].strict[1] ELSE TRUE

(* The body of set, which setMany repeats for every entry: resolve type    *)
(* and strict, validate, compute expiresAt, write.  Gives [threw, error,   *)
(* st]: whether it threw, which error, and the backend afterwards.         *)
WriteEntry(s, st, t, key, value, options) ==
    LET fullKey == WithPrefix(s, key)
        previous == GetMeta(st, fullKey)
        type0 == ResolveType(previous, options)
        strict == ResolveStrict(previous, options)
        type == IF ~TypeTruthy(type0) /\ ~strict THEN "no-type"
                ELSE IF type0 = <<>> THEN "" ELSE type0[1]
        check == IF strict THEN TypeCheck(value, type) ELSE "ok"
        expiring == options.expires # <<>> /\ ExpiresTruthy(options.expires[1])
        parsed == IF expiring THEN ParseExpires(options.expires[1])
                  ELSE [ok |-> TRUE, ms |-> 0]
        expiresAt == IF expiring THEN <<t + parsed.ms>> ELSE <<>>
        payload == [value |-> value, type |-> type, strict |-> strict,
                    expiresAt |-> expiresAt]
    IN  IF strict /\ ~TypeTruthy(type0)
        THEN [threw |-> TRUE, error |-> "type-required", st |-> st]
        ELSE IF check # "ok"
        THEN [threw |-> TRUE, error |-> check, st |-> st]
        ELSE IF ~parsed.ok
        THEN [threw |-> TRUE, error |-> "expires", st |-> st]
        ELSE [threw |-> FALSE, error |-> "",
              st |-> SetItem(st, fullKey, Stringify(payload))]

\* WriteMany as it would be if the loop ended after its first entry
WriteManyFirst(s, st, t, entries, i) ==
    IF i > Len(entries) THEN [threw |-> FALSE, error |-> "", at |-> 0, st |-> st]
    ELSE LET e == entries[i]
             r == WriteEntry(s, st, t, e.key, e.value, e.options)
         IN  [threw |-> r.threw, error |-> r.error,
              at |-> IF r.threw THEN i ELSE 0, st |-> r.st]

(* The loop of setMany over entries i..Len(entries), from the backend st:  *)
(* [threw, error, at, st] with at the index of the entry that threw (0     *)
(* when none did).                                                          *)
RECURSIVE WriteMany(_, _, _, _, _)
WriteMany(s, st, t, entries, i) ==
    IF i > Len(entries) THEN [threw |-> FALSE, error |-> "", at |-> 0, st |-> st]
    ELSE LET e == entries[i]
             r == WriteEntry(s, st, t, e.key, e.value, e.options)
         IN  IF r.threw
             THEN [threw |-> TRUE, error |-> r.error, at |-> i, st |-> st]
             ELSE WriteMany(s, r.st, t, entries, i + 1)

\* expiresAt && Date.now() > expiresAt, as a condition
Expired(raw, t) ==
    raw.expiresAt # <<>> /\ raw.expiresAt[1] # 0 /\ t > raw.expiresAt[1]

\* GetResult as it would be without the re-validation of lines 143-145
GetResultUnchecked(s, st, t, key) ==
    LET fullKey == WithPrefix(s, key)
        raw == st[fullKey]
    IN  IF fullKey \notin DOMAIN st THEN [ret |-> JSNull, purged |-> FALSE]
        ELSE IF ~Parsable(raw) \/ ~Destructurable(raw)
        THEN [ret |-> JSNull, purged |-> FALSE]
        ELSE IF raw.expiresAt # <<>> /\ raw.expiresAt[1] # 0 /\ t > raw.expiresAt[1]
        THEN [ret |-> JSNull, purged |-> TRUE]
        ELSE [ret |-> raw.value, purged |-> FALSE]

(* get(key) over the backend st at time t: [ret, purged], the value it     *)
(* returns and whether it removed the entry.  It never throws: the catch   *)
(* of lines 148-151 takes the errors of JSON.parse, of the destructuring   *)
(* and of #typeCheck alike.                                                 *)
GetResult(s, st, t, key) ==
    LET fullKey == WithPrefix(s, key)
        raw == st[fullKey]
    IN  IF fullKey \notin DOMAIN st THEN [ret |-> JSNull, purged |-> FALSE]
        ELSE IF ~Parsable(raw) \/ ~Destructurable(raw)
        THEN [ret |-> JSNull, purged |-> FALSE]
        ELSE IF Expired(raw, t) THEN [ret |-> JSNull, purged |-> TRUE]
        ELSE IF raw.strict = <<TRUE>> /\ raw.type # <<"no-type">>
                /\ TypeCheck(raw.value, IF raw.type = <<>> THEN "" ELSE raw.type[1]) # "ok"
        THEN [ret |-> JSNull, purged |-> FALSE]
        ELSE [ret |-> raw.value, purged |-> FALSE]

\* isExpired(key): the value of "expiresAt && Date.now() > expiresAt"
IsExpiredResult(s, st, t, key) ==
    LET fullKey == WithPrefix(s, key)
        raw == st[fullKey]
    IN  IF fullKey \notin DOMAIN st THEN JSBoolean("false")
        ELSE IF ~Parsable(raw) \/ ~Destructurable(raw) THEN JSBoolean("false")
        ELSE IF raw.kind = "scalar" THEN JSUndefined
        ELSE IF raw.expiresAt = <<>> THEN JSNull
        ELSE IF raw.expiresAt[1] = 0 THEN JSNumber("0")
        ELSE IF t > raw.expiresAt[1] THEN JSBoolean("true")
        ELSE JSBoolean("false")

\* the local key getAll computes from a full key of #keys
LocalKey(s, fullKey) ==
    IF s.prefix # <<>>
    THEN SubSeq(fullKey, Len(s.prefix) + 2, Len(fullKey))
    ELSE fullKey

\* Cleared as it would be if clear() ignored the prefix
ClearedAll(s, st) == DOMAIN st

\* the full keys clear() removes
Cleared(s, st) ==
    IF s.prefix # <<>>
    THEN {k \in DOMAIN st : StartsWith(k, s.prefix \o <<":">>)}
    ELSE DOMAIN st

----------------------------------------------------------------------------
(* The calls.  Every step records the call it made in last.                *)

NoOptions == [type |-> <<>>, strict |-> <<>>, expires |-> <<>>]

\* ret is the value returned; at is the index of the entry at which setMany
\* threw; all is the mapping getAll returned
Call(op, s, key, value, options, entries, ret, threw, error) ==
    [op |-> op, store |-> s, key |-> key, value |-> value, options |-> options,
     entries |-> entries, ret |-> ret, threw |-> threw, error |-> error,
     at |-> 0, all |-> <<>>]

Backend(s) == storage[s.storageType]

Live == DOMAIN keys

\* new Store(storageType, prefix): the constructor computes #keys
Construct(s) ==
    [t \in Live \cup {s} |->
        IF t = s THEN UpdateKeys(s, Backend(s)) ELSE keys[t]]

\* #updateKeys() on s, over the backend st
Refresh(s, st) == [keys EXCEPT ![s] = UpdateKeys(s, st)]

\* ns(namespace): namespace is a JavaScript value, a string's v its characters
Ns(s, namespace) ==
    /\ s \in Live
    /\ IF namespace.t # "string" \/ Trim(namespace.v) = <<>>
       THEN /\ keys' = keys
            /\ last' = Call("ns", s, <<>>, namespace, NoOptions, <<>>,
                            JSUndefined, TRUE, "namespace")
       ELSE /\ keys' = Construct(Store(s.storageType, namespace.v))
            /\ last' = Call("ns", s, <<>>, namespace, NoOptions, <<>>,
                            JSUndefined, FALSE, "")
    /\ UNCHANGED <<storage, now>>

\* set(key, value, options)
Set(s, key, value, options) ==
    /\ s \in Live
    /\ LET r == WriteEntry(s, Backend(s), now, key, value, options)
       IN  /\ storage' = [storage EXCEPT ![s.storageType] = r.st]
           /\ keys' = IF r.threw THEN keys ELSE Refresh(s, r.st)
           /\ last' = Call("set", s, key, value, options, <<>>, JSUndefined,
                           r.threw, r.error)
    /\ UNCHANGED now

\* setMany(entries): #updateKeys() runs after the loop, so not when it throws
SetMany(s, entries) ==
    /\ s \in Live
    /\ LET r == WriteMany(s, Backend(s), now, entries, 1)
       IN  /\ storage' = [storage EXCEPT ![s.storageType] = r.st]
           /\ keys' = IF r.threw THEN keys ELSE Refresh(s, r.st)
           /\ last' = [Call("setMany", s, <<>>, JSUndefined, NoOptions, entries,
                            JSUndefined, r.threw, r.error) EXCEPT !.at = r.at]
    /\ UNCHANGED now

\* the backend after get(key): an expired entry is removed
AfterGet(s, st, t, key) ==
    IF GetResult(s, st, t, key).purged
    THEN RemoveItem(st, WithPrefix(s, key)) ELSE st

\* get(key)
Get(s, key) ==
    /\ s \in Live
    /\ LET r == GetResult(s, Backend(s), now, key)
           st == AfterGet(s, Backend(s), now, key)
       IN  /\ storage' = [storage EXCEPT ![s.storageType] = st]
           /\ keys' = IF r.purged THEN Refresh(s, st) ELSE keys
           /\ last' = Call("get", s, key, JSUndefined, NoOptions, <<>>, r.ret,
                           FALSE, "")
    /\ UNCHANGED now

\* Has as it would be if it only looked the full key up in the backend
HasPresent(s, key) ==
    /\ s \in Live
    /\ last' = Call("has", s, key, JSUndefined, NoOptions, <<>>,
                    IF WithPrefix(s, key) \in DOMAIN Backend(s)
                    THEN JSBoolean("true") ELSE JSBoolean("false"),
                    FALSE, "")
    /\ UNCHANGED <<storage, keys, now>>

\* has(key): this.get(key) !== null
Has(s, key) ==
    /\ s \in Live
    /\ LET r == GetResult(s, Backend(s), now, key)
           st == AfterGet(s, Backend(s), now, key)
       IN  /\ storage' = [storage EXCEPT ![s.storageType] = st]
           /\ keys' = IF r.purged THEN Refresh(s, st) ELSE keys
           /\ last' = Call("has", s, key, JSUndefined, NoOptions, <<>>,
                           IF r.ret # JSNull THEN JSBoolean("true")
                           ELSE JSBoolean("false"),
                           FALSE, "")
    /\ UNCHANGED now

\* isExpired(key)
IsExpired(s, key) ==
    /\ s \in Live
    /\ last' = Call("isExpired", s, key, JSUndefined, NoOptions, <<>>,
                    IsExpiredResult(s, Backend(s), now, key), FALSE, "")
    /\ UNCHANGED <<storage, keys, now>>

\* remove(key)
Remove(s, key) ==
    /\ s \in Live
    /\ LET st == RemoveItem(Backend(s), WithPrefix(s, key))
       IN  /\ storage' = [storage EXCEPT ![s.storageType] = st]
           /\ keys' = Refresh(s, st)
    /\ last' = Call("remove", s, key, JSUndefined, NoOptions, <<>>,
                    JSUndefined, FALSE, "")
    /\ UNCHANGED now

\* clear()
Clear(s) ==
    /\ s \in Live
    /\ LET gone == Cleared(s, Backend(s))
           st == [k \in DOMAIN Backend(s) \ gone |-> Backend(s)[k]]
       IN  /\ storage' = [storage EXCEPT ![s.storageType] = st]
           /\ keys' = Refresh(s, st)
    /\ last' = Call("clear", s, <<>>, JSUndefined, NoOptions, <<>>,
                    JSUndefined, FALSE, "")
    /\ UNCHANGED now

(* getAll(): get on the local key of every full key of #keys.  Each get    *)
(* reads and removes nothing but its own full key, so the gets commute:    *)
(* the result is one entry per key whose get is not null, the expired      *)
(* entries among #keys are removed, and #keys is refreshed when one was.   *)
GetAll(s) ==
    /\ s \in Live
    /\ LET st == Backend(s)
           purged == {k \in keys[s] : GetResult(s, st, now, LocalKey(s, k)).purged}
           found == {k \in keys[s] : GetResult(s, st, now, LocalKey(s, k)).ret # JSNull}
           after == [k \in DOMAIN st \ {WithPrefix(s, LocalKey(s, k)) : k \in purged}
                        |-> st[k]]
       IN  /\ storage' = [storage EXCEPT ![s.storageType] = after]
           /\ keys' = IF purged # {} THEN Refresh(s, after) ELSE keys
           /\ last' = [Call("getAll", s, <<>>, JSUndefined, NoOptions, <<>>,
                            JSUndefined, FALSE, "")
                        EXCEPT !.all = [k \in {LocalKey(s, f) : f \in found} |->
                                           GetResult(s, st, now, k).ret]]
    /\ UNCHANGED now

\* other code of the page writes raw under fullKey: localStorage.setItem
External(storageType, fullKey, raw) ==
    /\ storage' = [storage EXCEPT
                     ![storageType] = SetItem(storage[storageType], fullKey, raw)]
    /\ last' = Call("external", Root, fullKey, JSUndefined, NoOptions, <<>>,
                    JSUndefined, FALSE, "")
    /\ UNCHANGED <<keys, now>>

\* time passes
Tick ==
    /\ now < MaxTime
    /\ now' = now + 1
    /\ last' = Call("tick", Root, <<>>, JSUndefined, NoOptions, <<>>,
                    JSUndefined, FALSE, "")
    /\ UNCHANGED <<storage, keys>>

----------------------------------------------------------------------------
(* The specification Spec: one store on localStorage, typed values, expiry *)

StorageTypes == {"localStorage", "sessionStorage"}

Stores == {Root}
Keys == {<<"x">>}
Values == {JSNumber("1"), JSString("x"), JSDate}
TypeOptions == {<<>>, <<"int">>, <<"date">>, <<"constructor">>, <<"bogus">>}
StrictOptions == {<<>>, <<TRUE>>, <<FALSE>>}
ExpiresOptions == {<<>>, <<ExpiresNumber(1)>>}
Options == [type : TypeOptions, strict : StrictOptions, expires : ExpiresOptions]

Entry(key, value, options) == [key |-> key, value |-> value, options |-> options]

\* the entries of the batches of setMany: the last one takes its type from
\* the envelope an earlier write left
BatchEntries ==
    {Entry(k, JSNumber("1"), [NoOptions EXCEPT !.type = <<"int">>]) : k \in Keys}
    \cup {Entry(k, JSDate, [NoOptions EXCEPT !.type = <<"date">>]) : k \in Keys}
    \cup {Entry(k, JSString("x"), NoOptions) : k \in Keys}

Batches == UNION {[1..n -> BatchEntries] : n \in 0..MaxBatch}

\* what other code of the page may leave in the backend
ExternalRaws ==
    {Garbage, NullText, ScalarText,
     [kind |-> "envelope", value |-> JSString("x"), type |-> <<"int">>,
      strict |-> <<TRUE>>, expiresAt |-> <<>>]}

Init ==
    /\ storage = [k \in StorageTypes |-> <<>>]
    /\ keys = [s \in {Root} |-> {}]
    /\ now = 1
    /\ last = Call("new", Root, <<>>, JSUndefined, NoOptions, <<>>, JSUndefined,
                   FALSE, "")

Next ==
    \/ \E s \in Stores, k \in Keys, v \in Values, o \in Options : Set(s, k, v, o)
    \/ \E s \in Stores, es \in Batches : SetMany(s, es)
    \/ \E s \in Stores, k \in Keys : Get(s, k)
    \/ \E s \in Stores, k \in Keys : Has(s, k)
    \/ \E s \in Stores, k \in Keys : IsExpired(s, k)
    \/ \E s \in Stores, k \in Keys : Remove(s, k)
    \/ \E s \in Stores : Clear(s)
    \/ \E s \in Stores : GetAll(s)
    \/ \E k \in Keys, raw \in ExternalRaws : External("localStorage", k, raw)
    \/ Tick

Spec == Init /\ [][Next]_vars

----------------------------------------------------------------------------
(* The specification SpecNs: the root store and the stores ns makes of it, *)
(* among them "a" and "a:b", over local keys of which one holds a colon.   *)

NsNames ==
    {JSString(<<"a">>), JSString(<<"a", ":", "b">>), JSString(<<" ">>),
     JSString(<<>>), JSNumber("1")}
NsStores ==
    {Root, Store("localStorage", <<"a">>), Store("localStorage", <<"a", ":", "b">>)}
\* the local keys each store is called with: "b:x" on "a" is the full key
\* "a:b:x", which is also the full key of "x" on "a:b"
NsKeys(s) ==
    IF s.prefix = <<"a">> THEN {<<"x">>, <<"b", ":", "x">>} ELSE {<<"x">>}
IntOption == [NoOptions EXCEPT !.type = <<"int">>]
NsBatchEntries ==
    {Entry(<<"x">>, JSNumber("1"), IntOption),
     Entry(<<"x">>, JSString("x"), [NoOptions EXCEPT !.type = <<"number">>])}
NsBatches == UNION {[1..n -> NsBatchEntries] : n \in 1..MaxBatch}

NextNs ==
    \/ \E s \in NsStores, n \in NsNames : Ns(s, n)
    \/ \E s \in NsStores : \E k \in NsKeys(s) : Set(s, k, JSNumber("1"), IntOption)
    \/ \E s \in NsStores, es \in NsBatches : SetMany(s, es)
    \/ \E s \in NsStores : \E k \in NsKeys(s) : Get(s, k)
    \/ \E s \in NsStores : \E k \in NsKeys(s) : Remove(s, k)
    \/ \E s \in NsStores : Clear(s)
    \/ \E s \in NsStores : GetAll(s)

SpecNs == Init /\ [][NextNs]_vars

----------------------------------------------------------------------------
(* The specification SpecRaw: the root store over two keys, one written by *)
(* set (a number or null, typed, expiring or not strict), both written by  *)
(* the other code of the page.                                              *)

RawKeys == {<<"x">>, <<"y">>}
RawValues == {JSNumber("1"), JSNull}
RawOptions ==
    {IntOption,
     [IntOption EXCEPT !.expires = <<ExpiresNumber(1)>>],
     [NoOptions EXCEPT !.strict = <<FALSE>>]}

NextRaw ==
    \/ \E v \in RawValues, o \in RawOptions : Set(Root, <<"x">>, v, o)
    \/ \E k \in RawKeys : Get(Root, k)
    \/ \E k \in RawKeys : Has(Root, k)
    \/ \E k \in RawKeys : Remove(Root, k)
    \/ GetAll(Root)
    \/ \E k \in RawKeys, raw \in ExternalRaws : External("localStorage", k, raw)
    \/ Tick

SpecRaw == Init /\ [][NextRaw]_vars

----------------------------------------------------------------------------
(* The specification SpecTtl: the root store over one key, the forms of    *)
(* the expires option, and batches whose entries inherit from one another. *)

\* 0, 1, "1s", "10sec", "2m", "2 MIN", "1h", " 1d ", "", "1x", "s", true,
\* false, {}
TtlExpires ==
    {<<>>,
     <<ExpiresNumber(0)>>,
     <<ExpiresNumber(1)>>,
     <<ExpiresString(<<"1", "s">>)>>,
     <<ExpiresString(<<"1", "0", "s", "e", "c">>)>>,
     <<ExpiresString(<<"2", "m">>)>>,
     <<ExpiresString(<<"2", " ", "M", "I", "N">>)>>,
     <<ExpiresString(<<"1", "h">>)>>,
     <<ExpiresString(<<" ", "1", "d", " ">>)>>,
     <<ExpiresString(<<>>)>>,
     <<ExpiresString(<<"1", "x">>)>>,
     <<ExpiresString(<<"s">>)>>,
     <<ExpiresBoolean(TRUE)>>,
     <<ExpiresBoolean(FALSE)>>,
     <<ExpiresObject>>}

TtlOptions == {[IntOption EXCEPT !.expires = e] : e \in TtlExpires}

TtlBatchEntries ==
    {Entry(<<"x">>, JSNumber("1"), [NoOptions EXCEPT !.type = <<"number">>]),
     Entry(<<"x">>, JSNumber("1"), NoOptions),
     Entry(<<"x">>, JSNumber("1"),
           [IntOption EXCEPT !.expires = <<ExpiresString(<<>>)>>]),
     Entry(<<"x">>, JSNumber("1"),
           [IntOption EXCEPT !.expires = <<ExpiresBoolean(TRUE)>>])}

TtlBatches == UNION {[1..n -> TtlBatchEntries] : n \in 0..MaxBatch}

NextTtl ==
    \/ \E o \in TtlOptions : Set(Root, <<"x">>, JSNumber("1"), o)
    \/ \E es \in TtlBatches : SetMany(Root, es)
    \/ Get(Root, <<"x">>)
    \/ External("localStorage", <<"x">>, Garbage)
    \/ Tick

SpecTtl == Init /\ [][NextTtl]_vars

----------------------------------------------------------------------------
(* What the claims speak of, stated apart from the code                    *)

\* the type tags the documentation lists as supported
SupportedTypes ==
    {"string", "number", "int", "object", "array", "boolean", "date"}

\* the validation rules of the specification, on the class of the value
Satisfies(value, type) ==
    \/ type = "string" /\ value.t = "string"
    \/ type = "number" /\ value.t = "number"
    \/ type = "int" /\ value.t = "number" /\ value.v \in {"0", "1", "2", "5"}
    \/ type = "object" /\ value.t = "object"
    \/ type = "array" /\ value.t = "array"
    \/ type = "boolean" /\ value.t = "boolean"
    \/ type = "date" /\ value.t = "date"
    \/ type = "no-type"

\* the backend keys of the namespace of s
NamespaceKeys(s, st) ==
    {k \in DOMAIN st : s.prefix = <<>> \/ StartsWith(k, s.prefix \o <<":">>)}

\* the entry under the full key of (s, key) is a JSON envelope
HasEnvelope(s, st, key) ==
    /\ WithPrefix(s, key) \in DOMAIN st
    /\ st[WithPrefix(s, key)].kind = "envelope"

\* the envelope's expiresAt has passed at time t
Passed(raw, t) == raw.expiresAt # <<>> /\ t > raw.expiresAt[1]

\* the calls of the Store, as against the steps of the environment
StoreOps ==
    {"ns", "set", "setMany", "get", "has", "isExpired", "remove", "clear",
     "getAll"}

----------------------------------------------------------------------------
(* C1: round trip.  A get(k) that directly follows a set(k, v, {type: T})  *)
(* that succeeded, with T a supported type and v valid for T, returns v.   *)
C1_RoundTrip ==
    [][(/\ last.op = "set" /\ ~last.threw
        /\ last.options.type # <<>>
        /\ last.options.type[1] \in SupportedTypes
        /\ Satisfies(last.value, last.options.type[1])
        /\ last'.op = "get"
        /\ last'.store = last.store /\ last'.key = last.key)
       => last'.ret = last.value]_vars

\* the entry under (s, key) is an envelope, not expired, with strict true
\* and a type other than "no-type" that its value does not satisfy
Tampered(s, st, t, key) ==
    /\ HasEnvelope(s, st, key)
    /\ LET raw == st[WithPrefix(s, key)]
       IN  /\ ~Passed(raw, t)
           /\ raw.strict = <<TRUE>>
           /\ raw.type # <<"no-type">>
           /\ raw.type # <<>>
           /\ ~Satisfies(raw.value, raw.type[1])

(* C2, as claimed: a get(k) that finds a parsable envelope, not expired,   *)
(* with strict true and a type other than "no-type" whose value does not   *)
(* satisfy the type, throws.                                                *)
C2_GetThrowsOnMismatch ==
    [][(last'.op = "get"
        /\ Tampered(last'.store, storage[last'.store.storageType], now, last'.key))
       => last'.threw]_vars

(* C2, amended: such a get does not throw; it returns null and leaves the  *)
(* backend and the key cache as they were.  (A tag that names a member of  *)
(* Object.prototype is not rejected by #typeCheck, see C3: such an entry   *)
(* is returned.)                                                            *)
C2_GetNullOnMismatch ==
    [][(last'.op = "get"
        /\ Tampered(last'.store, storage[last'.store.storageType], now, last'.key)
        /\ storage[last'.store.storageType][WithPrefix(last'.store, last'.key)].type[1]
              \notin InheritedCallable)
       => (~last'.threw /\ last'.ret = JSNull
           /\ storage' = storage /\ keys' = keys)]_vars

\* C2's case: a get has just met an envelope whose value fails its type
C2_Witness ==
    /\ last.op = "get"
    /\ Tampered(last.store, storage[last.store.storageType], now, last.key)
    /\ storage[last.store.storageType][WithPrefix(last.store, last.key)].type
          = <<"int">>
    /\ last.ret = JSNull

(* C3: a set whose resolved strict is true and whose value does not        *)
(* satisfy the resolved type, or whose resolved type is not a type tag of  *)
(* the validation table, throws and changes neither backend nor key cache. *)
C3_StrictSetRejects ==
    [][(last'.op = "set"
        /\ LET s == last'.store
               previous == GetMeta(storage[s.storageType], WithPrefix(s, last'.key))
               type == ResolveType(previous, last'.options)
           IN  /\ ResolveStrict(previous, last'.options)
               /\ \/ type = <<>>
                  \/ type[1] \notin SupportedTypes \cup {"no-type"}
                  \/ ~Satisfies(last'.value, type[1]))
       => (last'.threw /\ storage' = storage /\ keys' = keys)]_vars

\* a set without type and strict keeps the type and strict of the envelope
\* it replaces, or throws and changes nothing
C4_Inherits ==
    (last'.op = "set" /\ last'.options.type = <<>> /\ last'.options.strict = <<>>
     /\ HasEnvelope(last'.store, storage[last'.store.storageType], last'.key))
    => LET fk == WithPrefix(last'.store, last'.key)
           old == storage[last'.store.storageType][fk]
           new == storage'[last'.store.storageType][fk]
       IN  IF last'.threw THEN storage' = storage /\ keys' = keys
           ELSE new.kind = "envelope" /\ new.type = old.type
                /\ new.strict = old.strict

\* a call of the Store changes the type of an envelope only if it is a set
\* or setMany that gives a type for that key
C4_TypeChangesOnlyByType ==
    \A kind \in DOMAIN storage :
        \A fk \in DOMAIN storage[kind] \cap DOMAIN storage'[kind] :
            (/\ last'.op \in StoreOps
             /\ storage[kind][fk].kind = "envelope"
             /\ storage'[kind][fk].kind = "envelope"
             /\ storage'[kind][fk].type # storage[kind][fk].type)
            => \/ /\ last'.op = "set"
                  /\ last'.options.type # <<>>
                  /\ last'.store.storageType = kind
                  /\ WithPrefix(last'.store, last'.key) = fk
               \/ /\ last'.op = "setMany"
                  /\ last'.store.storageType = kind
                  /\ \E i \in 1..Len(last'.entries) :
                        /\ WithPrefix(last'.store, last'.entries[i].key) = fk
                        /\ last'.entries[i].options.type # <<>>

(* C4: (a) a set(k, v) without type and strict on a key that holds an      *)
(* envelope with type T and strict S writes an envelope with type T and    *)
(* strict S, or throws and changes nothing; (b) a call of the Store        *)
(* changes the type of an envelope only if it is a set or setMany that     *)
(* gives a type for that key.                                               *)
C4_TypeInheritance == [][C4_Inherits /\ C4_TypeChangesOnlyByType]_vars

\* C4's case: a set without type and strict has just kept the type "int"
\* and strict true of the envelope it replaced
C4_Witness ==
    /\ last.op = "set" /\ ~last.threw
    /\ last.options.type = <<>> /\ last.options.strict = <<>>
    /\ HasEnvelope(last.store, storage[last.store.storageType], last.key)
    /\ LET raw == storage[last.store.storageType][WithPrefix(last.store, last.key)]
       IN  raw.type = <<"int">> /\ raw.strict = <<TRUE>> /\ raw.value = last.value

\* a get or has on an expired entry purges it; no other call but getAll,
\* remove and clear takes an expired entry away
C5_ExpiredPurged ==
    /\ (last'.op \in {"get", "has"}
        /\ HasEnvelope(last'.store, storage[last'.store.storageType], last'.key)
        /\ Passed(storage[last'.store.storageType]
                         [WithPrefix(last'.store, last'.key)], now))
       => /\ last'.ret = IF last'.op = "get" THEN JSNull ELSE JSBoolean("false")
          /\ WithPrefix(last'.store, last'.key)
                \notin DOMAIN storage'[last'.store.storageType]
          /\ keys'[last'.store]
                = NamespaceKeys(last'.store, storage'[last'.store.storageType])
    /\ \A kind \in DOMAIN storage : \A fk \in DOMAIN storage[kind] :
          (/\ storage[kind][fk].kind = "envelope"
           /\ Passed(storage[kind][fk], now)
           /\ last'.op \notin {"get", "has", "getAll", "remove", "clear"})
          => /\ fk \in DOMAIN storage'[kind]
             /\ \A s \in DOMAIN keys : fk \in keys[s] => fk \in keys'[s]

\* a get that follows a set with expires d > 0 before the time is up
\* returns the value set
C5_FreshReturned ==
    (/\ last.op = "set" /\ ~last.threw
     /\ last.options.expires # <<>>
     /\ last.options.expires[1].t = "number" /\ last.options.expires[1].n > 0
     /\ last'.op = "get"
     /\ last'.store = last.store /\ last'.key = last.key
     /\ now' <= now + last.options.expires[1].n)
    => last'.ret = last.value

(* C5: lazy expiration.  A get or has on an entry whose expiresAt has      *)
(* passed returns null / false, removes the entry and refreshes the key    *)
(* cache; a get(k) that follows a set(k, v, {expires: d}), d > 0, at a     *)
(* time not later than that of the set plus d returns v; an expired entry  *)
(* stays in the backend and in the key cache unless the call is a get,     *)
(* has, getAll, remove or clear.                                            *)
C5_LazyExpiration == [][C5_ExpiredPurged /\ C5_FreshReturned]_vars

(* C6: isExpired(k) changes neither the backend nor the key cache; it      *)
(* returns true when the entry under k is an envelope whose expiresAt has  *)
(* passed and the boolean false otherwise.                                  *)
C6_IsExpiredPure ==
    [][last'.op = "isExpired"
       => /\ storage' = storage /\ keys' = keys
          /\ last'.ret =
                IF /\ HasEnvelope(last'.store, storage[last'.store.storageType],
                                  last'.key)
                   /\ Passed(storage[last'.store.storageType]
                                    [WithPrefix(last'.store, last'.key)], now)
                THEN JSBoolean("true") ELSE JSBoolean("false")]_vars

(* C7: namespace isolation.  A call on a store with prefix a creates,      *)
(* changes or deletes no backend entry that a store with another prefix b  *)
(* sees among its keys.                                                     *)
C7_NamespaceIsolation ==
    [][(last'.op \in StoreOps \ {"ns"} /\ last'.store.prefix # <<>>)
       => \A b \in DOMAIN keys :
            (/\ b.prefix # <<>>
             /\ b.prefix # last'.store.prefix
             /\ b.storageType = last'.store.storageType)
            => \A fk \in NamespaceKeys(b, storage[b.storageType])
                         \cup NamespaceKeys(b, storage'[b.storageType]) :
                    /\ fk \in DOMAIN storage[b.storageType]
                    /\ fk \in DOMAIN storage'[b.storageType]
                    /\ storage'[b.storageType][fk] = storage[b.storageType][fk]]_vars

(* C8: clear() on a store with a prefix deletes exactly the backend keys   *)
(* that start with prefix + ":" and leaves every other entry as it was;    *)
(* without a prefix it deletes every key; the key cache is empty after it. *)
C8_ClearExact ==
    [][last'.op = "clear"
       => LET s == last'.store
              st == storage[s.storageType]
              after == storage'[s.storageType]
          IN  /\ DOMAIN after =
                    IF s.prefix # <<>>
                    THEN {k \in DOMAIN st : ~StartsWith(k, s.prefix \o <<":">>)}
                    ELSE {}
              /\ \A k \in DOMAIN after : after[k] = st[k]
              /\ \A kind \in DOMAIN storage \ {s.storageType} :
                    storage'[kind] = storage[kind]
              /\ keys'[s] = {}]_vars

\* C8's case: the store "a" has just cleared its namespace (the root's
\* cache still lists a key of it) and the root's key "x" is still there
C8_Witness ==
    /\ last.op = "clear" /\ last.store.prefix = <<"a">>
    /\ <<"x">> \in DOMAIN storage["localStorage"]
    /\ \E k \in keys[Root] : StartsWith(k, <<"a", ":">>)
    /\ \A k \in DOMAIN storage["localStorage"] : ~StartsWith(k, <<"a", ":">>)

\* set(key, value, options) for the entries one after another, from st
RECURSIVE SetsInOrder(_, _, _, _)
SetsInOrder(s, st, t, entries) ==
    IF entries = <<>> THEN st
    ELSE SetsInOrder(s,
            WriteEntry(s, st, t, entries[1].key, entries[1].value,
                       entries[1].options).st,
            t, Tail(entries))

\* what a setMany that throws leaves, and what a get after it returns
C9_Partial ==
    /\ (last'.op = "setMany" /\ last'.threw)
       => LET s == last'.store
              es == last'.entries
              i == last'.at
              before == SetsInOrder(s, storage[s.storageType], now,
                                    SubSeq(es, 1, i - 1))
          IN  /\ i \in 1..Len(es)
              /\ storage'[s.storageType] = before
              /\ WriteEntry(s, before, now, es[i].key, es[i].value,
                            es[i].options).threw
    /\ (last.op = "setMany" /\ last.threw /\ last'.op = "get"
        /\ last'.store = last.store)
       => \A j \in 1..(last.at - 1) :
            (/\ last.entries[j].key = last'.key
             /\ \A m \in (j + 1)..(last.at - 1) :
                    last.entries[m].key # last'.key)
            => last'.ret = last.entries[j].value

(* C9: when setMany throws at entry i, the backend is what set leaves for  *)
(* the entries before i, one after another, entry i would make set throw   *)
(* from there, and a get that follows returns the value of the last entry  *)
(* before i for its key.                                                    *)
C9_SetManyPartial == [][C9_Partial]_vars

(* C10: after a call of a store that added or removed a backend entry,     *)
(* the store's key cache is the set of backend keys of its namespace.      *)
C10_KeysCurrent ==
    [][(/\ last'.op \in StoreOps \ {"ns"}
        /\ DOMAIN storage'[last'.store.storageType]
              # DOMAIN storage[last'.store.storageType])
       => keys'[last'.store]
             = NamespaceKeys(last'.store, storage'[last'.store.storageType])]_vars

\* the envelope passes the validation its type asks for: with strict true
\* and a type other than "no-type", the value satisfies the type
ValidUnderType(raw) ==
    (raw.strict = <<TRUE>> /\ raw.type # <<"no-type">>)
    => (raw.type # <<>> /\ Satisfies(raw.value, raw.type[1]))

\* the entries of the namespace of s that getAll is to return: parsable
\* envelopes, not expired, valid under their type
Listed(s, st, t) ==
    {k \in NamespaceKeys(s, st) :
        /\ st[k].kind = "envelope"
        /\ ~Passed(st[k], t)
        /\ ValidUnderType(st[k])}

(* C11: getAll() on a store whose key cache is current does not throw and  *)
(* returns a mapping whose local keys are exactly those of the entries of  *)
(* the namespace that are parsable envelopes, not expired and valid under  *)
(* their type, each mapped to its stored value.                            *)
C11_GetAllExact ==
    [][(/\ last'.op = "getAll"
        /\ keys[last'.store]
              = NamespaceKeys(last'.store, storage[last'.store.storageType]))
       => LET s == last'.store
              st == storage[s.storageType]
          IN  /\ ~last'.threw
              /\ DOMAIN last'.all = {LocalKey(s, k) : k \in Listed(s, st, now)}
              /\ \A k \in Listed(s, st, now) :
                    last'.all[LocalKey(s, k)] = st[k].value]_vars

\* the type and strict an entry resolves to over the backend st: the option
\* when given, else that of the envelope under the key, else none / true
ResolvedType(s, st, key, options) ==
    IF options.type # <<>> THEN options.type
    ELSE IF HasEnvelope(s, st, key) THEN st[WithPrefix(s, key)].type ELSE <<>>

ResolvedStrict(s, st, key, options) ==
    IF options.strict # <<>> THEN options.strict
    ELSE IF HasEnvelope(s, st, key) /\ st[WithPrefix(s, key)].strict # <<>>
         THEN st[WithPrefix(s, key)].strict ELSE <<TRUE>>

\* the entry resolves to strict true with an empty type
TypeMissing(s, st, key, options) ==
    /\ ResolvedStrict(s, st, key, options) = <<TRUE>>
    /\ ResolvedType(s, st, key, options) \in {<<>>, <<"">>}

\* a set that resolves to strict true without a type throws and changes
\* nothing; so does every set without options on a key without envelope
C12_SetRequiresType ==
    (/\ last'.op = "set"
     /\ \/ TypeMissing(last'.store, storage[last'.store.storageType],
                       last'.key, last'.options)
        \/ /\ last'.options = NoOptions
           /\ ~HasEnvelope(last'.store, storage[last'.store.storageType],
                           last'.key))
    => (last'.threw /\ storage' = storage /\ keys' = keys)

\* a setMany stops at the first entry that resolves to strict true without
\* a type, over the backend the entries before it left, and writes nothing
\* for it
C12_SetManyRequiresType ==
    last'.op = "setMany"
    => LET s == last'.store
           es == last'.entries
           reach == IF last'.threw THEN last'.at ELSE Len(es)
       IN  \A i \in 1..reach :
              LET before == SetsInOrder(s, storage[s.storageType], now,
                                        SubSeq(es, 1, i - 1))
              IN  TypeMissing(s, before, es[i].key, es[i].options)
                  => (/\ last'.threw /\ last'.at = i
                      /\ storage'[s.storageType] = before)

\* no envelope that a set or setMany wrote has strict true and an empty type
C12_NoStrictUntyped ==
    last'.op \in {"set", "setMany"}
    => \A kind \in DOMAIN storage' : \A fk \in DOMAIN storage'[kind] :
          (fk \notin DOMAIN storage[kind]
           \/ storage'[kind][fk] # storage[kind][fk])
          => ~(/\ storage'[kind][fk].strict = <<TRUE>>
               /\ storage'[kind][fk].type \in {<<>>, <<"">>})

(* C12: an entry of set or setMany whose resolved strict is true and whose *)
(* resolved type is empty throws and writes nothing; no envelope written   *)
(* by set or setMany has strict true with an empty type; a set without     *)
(* options on a key without a previous envelope throws.                    *)
C12_TypeRequired ==
    [][C12_SetRequiresType /\ C12_SetManyRequiresType /\ C12_NoStrictUntyped]_vars

\* C12's case: a set without options on a key that holds text that is not
\* an envelope has just thrown "type is required" and left the text there
C12_Witness ==
    /\ last.op = "set" /\ last.threw /\ last.error = "type-required"
    /\ last.options = NoOptions
    /\ WithPrefix(last.store, last.key) \in DOMAIN storage[last.store.storageType]
    /\ storage[last.store.storageType][WithPrefix(last.store, last.key)]
          = ScalarText

\* the entry under (s, key) is an envelope whose expiresAt has passed
ExpiredEnvelope(s, st, t, key) ==
    HasEnvelope(s, st, key) /\ Passed(st[WithPrefix(s, key)], t)

(* C19: a set(k, v) without type and strict on a key that holds an         *)
(* envelope whose expiresAt has passed takes type and strict from that     *)
(* envelope: with strict true it is validated against the envelope's type  *)
(* (it throws only for a value that fails it, never "type is required"),   *)
(* and what it writes carries the envelope's type and strict.              *)
C19_ExpiredGivesDefaults ==
    [][(/\ last'.op = "set"
        /\ last'.options.type = <<>> /\ last'.options.strict = <<>>
        /\ ExpiredEnvelope(last'.store, storage[last'.store.storageType], now,
                           last'.key))
       => LET fk == WithPrefix(last'.store, last'.key)
              old == storage[last'.store.storageType][fk]
              new == storage'[last'.store.storageType][fk]
          IN  IF old.strict = <<TRUE>>
                 /\ TypeCheck(last'.value, old.type[1]) # "ok"
              THEN /\ last'.threw /\ last'.error = "mismatch"
                   /\ storage' = storage /\ keys' = keys
              ELSE /\ ~last'.threw
                   /\ new.kind = "envelope"
                   /\ new.type = old.type /\ new.strict = old.strict
                   /\ new.value = ToJSON(last'.value)]_vars

\* C19's case: a set without type and strict, of a string, on an envelope
\* of type "int" that had expired and is still in the backend has just
\* failed the check against "int"
C19_Witness ==
    /\ last.op = "set" /\ last.threw /\ last.error = "mismatch"
    /\ last.options = NoOptions /\ last.value = JSString("x")
    /\ ExpiredEnvelope(last.store, storage[last.store.storageType], now, last.key)
    /\ storage[last.store.storageType][WithPrefix(last.store, last.key)].type
          = <<"int">>

\* the envelope under (s, key) has strict false
Lax(s, st, key) ==
    HasEnvelope(s, st, key) /\ st[WithPrefix(s, key)].strict = <<FALSE>>

(* C20: a set(k, v, options) without strict on a key whose envelope has    *)
(* strict false does not throw, whatever v and the type option are (an     *)
(* unsupported tag too), and writes an envelope with strict false whose    *)
(* type is the type option, else the envelope's type; the envelope of a    *)
(* key leaves strict false only by a set or setMany that gives strict, or  *)
(* by the removal of the key.                                               *)
C20_NonStrictSticky ==
    [][/\ (/\ last'.op = "set" /\ last'.options.strict = <<>>
           /\ Lax(last'.store, storage[last'.store.storageType], last'.key))
          => LET fk == WithPrefix(last'.store, last'.key)
                 old == storage[last'.store.storageType][fk]
                 new == storage'[last'.store.storageType][fk]
             IN  /\ ~last'.threw
                 /\ new.kind = "envelope" /\ new.strict = <<FALSE>>
                 /\ new.value = ToJSON(last'.value)
                 /\ new.type = IF last'.options.type # <<>>
                               THEN last'.options.type ELSE old.type
       /\ \A k \in Keys :
             (/\ last'.op \in StoreOps
              /\ Lax(last'.store, storage[last'.store.storageType], k)
              /\ ~Lax(last'.store, storage'[last'.store.storageType], k))
             => \/ WithPrefix(last'.store, k)
                      \notin DOMAIN storage'[last'.store.storageType]
                \/ /\ last'.op = "set" /\ last'.key = k
                   /\ last'.options.strict = <<TRUE>>
                \/ /\ last'.op = "setMany"
                   /\ \E i \in 1..Len(last'.entries) :
                         /\ last'.entries[i].key = k
                         /\ last'.entries[i].options.strict = <<TRUE>>]_vars

\* C20's case: a set without strict, with an unsupported type tag and a
\* value of another class, has just replaced a non-strict envelope
C20_Witness ==
    /\ last.op = "set" /\ ~last.threw
    /\ last.options.strict = <<>> /\ last.options.type = <<"bogus">>
    /\ last.value = JSDate
    /\ Lax(last.store, storage[last.store.storageType], last.key)
    /\ storage[last.store.storageType][WithPrefix(last.store, last.key)].type
          = <<"bogus">>

\* has does what get does to the backend and the key cache, and returns
\* whether get returns something other than null
C15_HasAgreesWithGet ==
    last'.op = "has"
    => LET s == last'.store
           st == storage[s.storageType]
       IN  /\ last'.ret = IF GetResult(s, st, now, last'.key).ret # JSNull
                          THEN JSBoolean("true") ELSE JSBoolean("false")
           /\ storage'[s.storageType] = AfterGet(s, st, now, last'.key)

\* the backend holds an entry under (s, key) that has not expired
HeldUnexpired(s, st, t, key) ==
    /\ WithPrefix(s, key) \in DOMAIN st
    /\ ~(HasEnvelope(s, st, key) /\ Passed(st[WithPrefix(s, key)], t))

Readable(s, st, t, key) ==
    /\ WithPrefix(s, key) \in DOMAIN st
    /\ LET raw == st[WithPrefix(s, key)]
       IN  /\ raw.kind \in {"scalar", "envelope"}
           /\ ~Passed(raw, t)
           /\ (raw.strict = <<TRUE>> /\ raw.type # <<"no-type">>)
              => (raw.type # <<>> /\ TypeCheck(raw.value, raw.type[1]) = "ok")
           /\ raw.value # JSNull

C16_Removes ==
    last'.op = "remove"
    => LET s == last'.store
           st == storage[s.storageType]
           after == storage'[s.storageType]
           fk == WithPrefix(s, last'.key)
       IN  /\ ~last'.threw
           /\ DOMAIN after = DOMAIN st \ {fk}
           /\ \A k \in DOMAIN after : after[k] = st[k]
           /\ \A kind \in DOMAIN storage \ {s.storageType} :
                 storage'[kind] = storage[kind]
           /\ fk \notin keys'[s]
           /\ keys'[s] = NamespaceKeys(s, after)

\* a second remove(k) changes nothing, and a get(k) after remove(k) returns
\* null
C16_Idempotent ==
    (last.op = "remove" /\ last'.store = last.store /\ last'.key = last.key)
    => /\ last'.op = "remove" => (storage' = storage /\ keys' = keys)
       /\ last'.op = "get" => last'.ret = JSNull

(* C16: remove(k) deletes the full key of k from the backend whatever is   *)
(* stored there, does not throw when the key is absent, leaves every other *)
(* backend entry unchanged, and is idempotent; afterwards get(k) returns   *)
(* null and the full key is not in keys.                                    *)
C16_RemoveIdempotent == [][C16_Removes /\ C16_Idempotent]_vars

\* C16's case: remove("x") has just acted; the unparsable text under "y"
\* is still there, and the key cache lists "y" alone
C16_Witness ==
    /\ last.op = "remove" /\ last.key = <<"x">>
    /\ DOMAIN storage["localStorage"] = {<<"y">>}
    /\ storage["localStorage"][<<"y">>] = Garbage
    /\ keys[Root] = {<<"y">>}

\* the multipliers of the units of a duration string
Multiplier(unit) ==
    CASE unit \in {<<"s">>, <<"s", "e", "c">>} -> 1000
      [] unit \in {<<"m">>, <<"m", "i", "n">>} -> 60000
      [] unit = <<"h">> -> 3600000
      [] unit = <<"d">> -> 86400000

\* the places at which str splits into an integer and a unit (whatever the
\* case of the unit, with blanks around the string and before the unit)
Splits(str) ==
    LET low == ToLowerCase(Trim(str))
    IN  {i \in 1..Len(low) :
            /\ \A j \in 1..i : low[j] \in Digits
            /\ TrimStart(SubSeq(low, i + 1, Len(low))) \in Units}

\* the expires option is a number or a string '<integer><unit>'
WellFormed(expires) ==
    \/ expires.t = "number"
    \/ expires.t = "string" /\ Splits(expires.s) # {}

\* the duration a well-formed expires option stands for, in milliseconds
Duration(expires) ==
    IF expires.t = "number" THEN expires.n
    ELSE LET low == ToLowerCase(Trim(expires.s))
             i == CHOOSE j \in Splits(expires.s) : TRUE
         IN  ParseInt(SubSeq(low, 1, i))
             * Multiplier(TrimStart(SubSeq(low, i + 1, Len(low))))

(* C13: the envelope that set(k, v, options) writes has expiresAt = the    *)
(* time of the call + the duration of options.expires when that is a       *)
(* number n (n itself, 0 included) or a string '<integer><unit>' (the      *)
(* integer times the multiplier of the unit), and expiresAt null when      *)
(* expires is omitted, whatever the envelope it replaces.                  *)
C13_ExpiresAt ==
    [][(last'.op = "set" /\ ~last'.threw)
       => LET new == storage'[last'.store.storageType]
                             [WithPrefix(last'.store, last'.key)]
              expires == last'.options.expires
          IN  IF expires = <<>> THEN new.expiresAt = <<>>
              ELSE WellFormed(expires[1])
                   => new.expiresAt = <<now + Duration(expires[1])>>]_vars

\* the expires option is given and is not well-formed
Malformed(options) ==
    options.expires # <<>> /\ ~WellFormed(options.expires[1])

(* C14: a set, or an entry of setMany, whose expires option is given and   *)
(* is neither a number nor a string '<integer><unit>' throws and writes    *)
(* nothing.                                                                 *)
C14_BadExpiresThrows ==
    [][/\ (last'.op = "set" /\ Malformed(last'.options))
          => (last'.threw /\ storage' = storage /\ keys' = keys)
       /\ last'.op = "setMany"
          => LET s == last'.store
                 es == last'.entries
                 reach == IF last'.threw THEN last'.at ELSE Len(es)
             IN  \A i \in 1..reach :
                    Malformed(es[i].options)
                    => (/\ last'.threw /\ last'.at = i
                        /\ storage'[s.storageType]
                              = SetsInOrder(s, storage[s.storageType], now,
                                            SubSeq(es, 1, i - 1)))]_vars

\* the key cache of s after set for the entries one after another: every
\* set recomputes it
KeysAfterSets(s, st, t, entries) ==
    IF entries = <<>> THEN keys[s]
    ELSE UpdateKeys(s, SetsInOrder(s, st, t, entries))

(* C18, as claimed: a setMany in which every entry succeeds leaves the     *)
(* backend and the key cache of the store as set leaves them, called for   *)
(* the entries one after another.                                           *)
C18_SetManyAsSets ==
    [][(last'.op = "setMany" /\ ~last'.threw)
       => LET s == last'.store
              st == storage[s.storageType]
          IN  /\ storage'[s.storageType] = SetsInOrder(s, st, now, last'.entries)
              /\ keys'[s] = KeysAfterSets(s, st, now, last'.entries)]_vars

(* C18, amended: a setMany in which every entry succeeds leaves the        *)
(* backend as set leaves it, called for the entries one after another (a   *)
(* later entry of a key inherits from what an earlier one wrote), and      *)
(* leaves the key cache recomputed over that backend: for a batch with at  *)
(* least one entry that is the cache the sets leave; for an empty batch    *)
(* the backend is unchanged and the cache is recomputed all the same.      *)
C18_SetManyRefreshes ==
    [][(last'.op = "setMany" /\ ~last'.threw)
       => LET s == last'.store
              st == storage[s.storageType]
          IN  /\ storage'[s.storageType] = SetsInOrder(s, st, now, last'.entries)
              /\ last'.entries # <<>>
                 => keys'[s] = KeysAfterSets(s, st, now, last'.entries)
              /\ keys'[s] = NamespaceKeys(s, storage'[s.storageType])
              /\ \A t \in DOMAIN keys \ {s} : keys'[t] = keys[t]]_vars

\* C18's case: a setMany of two entries of one key, the second without
\* type and strict, has just succeeded and left the type "number"
C18_Witness ==
    /\ last.op = "setMany" /\ ~last.threw
    /\ last.entries =
          <<Entry(<<"x">>, JSNumber("1"), [NoOptions EXCEPT !.type = <<"number">>]),
            Entry(<<"x">>, JSNumber("1"), NoOptions)>>
    /\ storage["localStorage"][<<"x">>].type = <<"number">>
    /\ storage["localStorage"][<<"x">>].strict = <<TRUE>>
    /\ keys[Root] = {<<"x">>}

\* the name is a string with a character that is not a blank
ProperName(name) ==
    name.t = "string" /\ \E i \in 1..Len(name.v) : name.v[i] # " "

\* ns(name) with a proper name makes the store of the receiver's backend
\* kind whose prefix is name, with a key cache of its own computed over the
\* backend, and changes nothing else; with any other name it throws and
\* makes nothing
C17_NsMakes ==
    last'.op = "ns"
    => /\ storage' = storage
       /\ IF ProperName(last'.value)
          THEN LET new == Store(last'.store.storageType, last'.value.v)
               IN  /\ ~last'.threw
                   /\ DOMAIN keys' = DOMAIN keys \cup {new}
                   /\ keys'[new] = NamespaceKeys(new, storage[new.storageType])
                   /\ \A t \in DOMAIN keys \ {new} : keys'[t] = keys[t]
          ELSE last'.threw /\ keys' = keys

\* a call on a store changes the key cache of no other store
C17_OwnCache ==
    last'.op \in StoreOps \ {"ns"}
    => /\ DOMAIN keys' = DOMAIN keys
       /\ \A t \in DOMAIN keys \ {last'.store} : keys'[t] = keys[t]

(* C17: ns(name) on any store, with or without a prefix, makes a store on  *)
(* the same backend kind whose prefix is name, not combined with that of   *)
(* the receiver, with a key cache of its own; it throws and makes nothing  *)
(* when name is not a string, is empty or is all blanks; the calls on one  *)
(* store never change the key cache of another.  (The model keeps one      *)
(* store for each backend kind and prefix.)                                *)
C17_NsIndependent == [][C17_NsMakes /\ C17_OwnCache]_vars

\* C17's case: the store "a" has just made the store "a:b", whose key
\* cache lists a key that the cache of the root store does not
C17_Witness ==
    /\ last.op = "ns" /\ ~last.threw
    /\ last.store = Store("localStorage", <<"a">>)
    /\ last.value = JSString(<<"a", ":", "b">>)
    /\ Store("localStorage", <<"a", ":", "b">>) \in DOMAIN keys
    /\ Store("localStorage", <<"a", ":", "a", ":", "b">>) \notin DOMAIN keys
    /\ keys[Store("localStorage", <<"a", ":", "b">>)] = {<<"a", ":", "b", ":", "x">>}
    /\ <<"a", ":", "b", ":", "x">> \notin keys[Root]

=============================================================================
